---- MODULE Spec2Model ----
(***************************************************************************)
(* Report and feature-selection layer of TabularMagic.                     *)
(*                                                                         *)
(*   _src/interactive/regression/mlreg.py          (regression reports)    *)
(*   _src/interactive/classification/mlclass.py    (classification reports)*)
(*   interactive/regression.py                     (pre-split variant)     *)
(*   _src/feature_selection/regression_feature_selection.py                *)
(*                                                                         *)
(* The regression and the classification report classes share their code   *)
(* line for line except for the binary flag; the variable task selects the *)
(* variant ("regression", "binary" or "multiclass" classification).        *)
(*                                                                         *)
(* Python values: None is the empty tuple, any other value v is <<v>>.     *)
(* A statistics table is the sequence of its column groups, one group per  *)
(* scorer table it was built from.  A dict is the sequence of its          *)
(* key/value pairs in insertion order.                                     *)
(***************************************************************************)
EXTENDS Integers, Sequences, FiniteSets, TLC

VARIABLES
    task,          \* "regression" | "binary" | "multiclass": what the scorers are
    models,        \* the models handed to the Multi-Model Report, in order
    outer_cv,      \* constructor argument outer_cv: None or Some(n)
    pc,            \* position of MLRegressionReport.__init__
    i,             \* index of the model the fitting loop is at
    emitter,       \* self._emitter
    emitters,      \* self._emitters
    id_to_model,   \* self._id_to_model: dict name -> index into models
    id_to_report,  \* self._id_to_report: dict name -> Single-Model Report object
    smreports,     \* heap of Single-Model Report objects
    sdreports,     \* heap of Single-Model/Single-Dataset Report objects
    calls,         \* calls made on the collaborators (data handler, models), in order
    ret,           \* outcome of the last operation called on a report
    fs,            \* a feature selector: its configuration and instance state
    regreports,    \* heap of RegressionReport objects (pre-split variant)
    report_dict_indexable_by_int,  \* self._report_dict_indexable_by_int
    report_dict_indexable_by_str,  \* self._report_dict_indexable_by_str
    fit_statistics                 \* self.fit_statistics (pre-split variant)

(* the state of the pre-split-array Multi-Model Report *)
presplit == <<regreports, report_dict_indexable_by_int, report_dict_indexable_by_str,
              fit_statistics>>

vars == <<task, models, outer_cv, pc, i, emitter, emitters, id_to_model,
          id_to_report, smreports, sdreports, calls, ret, fs, presplit>>

----------------------------------------------------------------------------
(* Bounds *)

MaxModels == 3
MaxSingleModels == 2
MaxReports == 2
MaxFolds == 2
MaxFeatures == 3
MaxScore == 2
MaxPlots == 2

Names == {"A", "B"}
DistinctNames == <<"A", "B", "C", "D">>
Tasks == {"regression", "binary", "multiclass"}
Datasets == {"train", "test", "validation"}
FeatureNames == <<"f1", "f2", "f3", "f4", "f5">>
GeneratedNames == <<"x0", "x1", "x2", "x3", "x4">>

----------------------------------------------------------------------------
(* Python values *)

None == <<>>
Some(v) == <<v>>

StrKey(s) == [kind |-> "str", s |-> s, n |-> 0]
IntKey(n) == [kind |-> "int", s |-> "", n |-> n]
Keys == {StrKey(s) : s \in Names \cup {"Z"}} \cup {IntKey(0)}

(* dict: insertion-ordered key/value pairs; a repeated key keeps its first  *)
(* position and takes the last value.                                       *)
DictHas(d, k) == \E j \in 1..Len(d) : d[j].key = k
DictGet(d, k) == d[CHOOSE j \in 1..Len(d) : d[j].key = k].val
(* a key already present keeps its first value *)
DictSetKeepFirst(d, k, v) ==
    IF DictHas(d, k) THEN d ELSE Append(d, [key |-> k, val |-> v])
DictSet(d, k, v) ==
    IF DictHas(d, k)
    THEN [j \in 1..Len(d) |-> IF d[j].key = k THEN [key |-> k, val |-> v] ELSE d[j]]
    ELSE Append(d, [key |-> k, val |-> v])
RECURSIVE DictOf(_)
DictOf(pairs) ==
    IF pairs = <<>> THEN <<>>
    ELSE LET n == Len(pairs)
         IN DictSet(DictOf(SubSeq(pairs, 1, n - 1)), pairs[n].key, pairs[n].val)
(* the values taken in the opposite order *)
DictValuesReversed(d) == [j \in 1..Len(d) |-> d[Len(d) + 1 - j].val]
DictValues(d) == [j \in 1..Len(d) |-> d[j].val]
DictKeys(d) == {d[j].key : j \in 1..Len(d)}

----------------------------------------------------------------------------
(* Scorers and tables (external collaborators) *)

(* One column group: the table df of one scorer of one model. *)
Group(m, scorer, df) == [model |-> m, scorer |-> scorer, df |-> df]

(* model._is_cross_validated() *)
IsCrossValidated(m) == models[m].cv

(* isinstance(model.train_scorer, ClassificationBinaryScorer) *)
TrainScorerIsBinary(m) == task = "binary"

(* pd.concat(objs, axis=1): None entries are dropped silently; an empty     *)
(* list, or one holding only None, raises ValueError.                       *)
RECURSIVE ConcatTables(_)
ConcatTables(objs) ==
    IF objs = <<>> THEN <<>>
    ELSE (IF Head(objs) = None THEN <<>> ELSE Head(objs)[1]) \o ConcatTables(Tail(objs))
AllNone(objs) == \A j \in 1..Len(objs) : objs[j] = None
PdConcat(objs) ==
    IF AllNone(objs)
    THEN [out |-> "raise", exc |-> "ValueError", val |-> None]
    ELSE [out |-> "return", exc |-> "", val |-> Some(ConcatTables(objs))]

Return(op, self, arg, v) ==
    [op |-> op, self |-> self, arg |-> arg, out |-> "return", exc |-> "", val |-> v]
Raise(op, self, arg, e) ==
    [op |-> op, self |-> self, arg |-> arg, out |-> "raise", exc |-> e, val |-> None]
NoCall == [op |-> "", self |-> 0, arg |-> None, out |-> "", exc |-> "", val |-> None]
(* The outcome r of a call, recorded with the call it answers. *)
Outcome(op, self, arg, r) ==
    [op |-> op, self |-> self, arg |-> arg, out |-> r.out, exc |-> r.exc, val |-> r.val]

----------------------------------------------------------------------------
(* SingleModelSingleDatasetMLRegReport / SingleModelSingleDatasetMLClassReport *)

(* the selector check left out *)
ValidDatasetUnchecked(dataset) == dataset \in Datasets
ValidDataset(dataset) == dataset \in {"train", "test"}

(* __init__: the object, or the exception raised. *)
SingleDatasetInit(m, dataset) ==
    IF ~ValidDataset(dataset)
    THEN [out |-> "raise", exc |-> "ValueError", obj |-> None]
    ELSE [out |-> "return", exc |-> "",
          obj |-> Some([model |-> m, dataset |-> dataset,
                        is_binary |-> TrainScorerIsBinary(m)])]

SD_fit_statistics(self) ==
    IF self.dataset = "train"
    THEN Some(<<Group(self.model, "train_scorer", "stats_df")>>)
    ELSE Some(<<Group(self.model, "test_scorer", "stats_df")>>)

(* the binary guard left out *)
SD_fit_statistics_by_class_unguarded(self) ==
    IF self.dataset = "train"
    THEN Some(<<Group(self.model, "train_scorer", "stats_by_class_df")>>)
    ELSE Some(<<Group(self.model, "test_scorer", "stats_by_class_df")>>)

SD_fit_statistics_by_class(self) ==
    IF self.is_binary THEN None
    ELSE IF self.dataset = "train"
         THEN Some(<<Group(self.model, "train_scorer", "stats_by_class_df")>>)
         ELSE Some(<<Group(self.model, "test_scorer", "stats_by_class_df")>>)

(* the cross-validation guard left out *)
SD_cv_fit_statistics_unguarded(self, averaged_across_folds) ==
    IF self.dataset = "train"
    THEN IF averaged_across_folds
         THEN Some(<<Group(self.model, "cv_scorer", "stats_df")>>)
         ELSE Some(<<Group(self.model, "cv_scorer", "cv_stats_df")>>)
    ELSE None

SD_cv_fit_statistics(self, averaged_across_folds) ==
    IF ~IsCrossValidated(self.model) THEN None
    ELSE IF self.dataset = "train"
         THEN IF averaged_across_folds
              THEN Some(<<Group(self.model, "cv_scorer", "stats_df")>>)
              ELSE Some(<<Group(self.model, "cv_scorer", "cv_stats_df")>>)
         ELSE None

(* the binary guard left out *)
SD_cv_fit_statistics_by_class_nobinary(self, averaged_across_folds) ==
    IF ~IsCrossValidated(self.model) THEN None
    ELSE IF self.dataset = "train"
         THEN IF averaged_across_folds
              THEN Some(<<Group(self.model, "cv_scorer", "stats_by_class_df")>>)
              ELSE Some(<<Group(self.model, "cv_scorer", "cv_stats_by_class_df")>>)
         ELSE None

SD_cv_fit_statistics_by_class(self, averaged_across_folds) ==
    IF ~IsCrossValidated(self.model) THEN None
    ELSE IF self.is_binary THEN None
    ELSE IF self.dataset = "train"
         THEN IF averaged_across_folds
              THEN Some(<<Group(self.model, "cv_scorer", "stats_by_class_df")>>)
              ELSE Some(<<Group(self.model, "cv_scorer", "cv_stats_by_class_df")>>)
         ELSE None

----------------------------------------------------------------------------
(* SingleModelMLRegReport / SingleModelMLClassReport *)

SingleModelInit(m) == [model |-> m]
(* the train report bound to the wrong partition *)
SM_train_report_on_test(self) == SingleDatasetInit(self.model, "test")
SM_train_report(self) == SingleDatasetInit(self.model, "train")
SM_test_report(self) == SingleDatasetInit(self.model, "test")

----------------------------------------------------------------------------
(* MLRegressionReport / MLClassificationReport: construction *)

N == Len(models)

Call(fn, m, arg) == [fn |-> fn, model |-> m, arg |-> arg]

(* the loop stopping one model short *)
LoopStopsShort(k) == IF k >= N THEN "reports" ELSE "specify"
(* for model in self._models: the loop is at model k, or past the last one *)
LoopAt(k) == IF k > N THEN "reports" ELSE "specify"

(* {model._name: model for model in models} *)
IdToModel == DictOf([j \in 1..N |-> [key |-> models[j].name, val |-> j]])

(* {model._name: SingleModelMLRegReport(model) for model in models}, the    *)
(* j-th object created being the report of the j-th model                   *)
NewSingleModelReports == [j \in 1..N |-> SingleModelInit(j)]
IdToReport == DictOf([j \in 1..N |-> [key |-> models[j].name, val |-> j]])

(* self._models, self._id_to_model and the shared train/test emitter *)
Begin ==
    /\ pc = "start"
    /\ id_to_model' = IdToModel
    /\ emitter' = Some("train_test_emitter")
    /\ emitters' = None
    /\ calls' = Append(calls, Call("train_test_emitter", 0, None))
    /\ i' = 1
    /\ pc' = IF outer_cv # None THEN "kfold" ELSE LoopAt(1)
    /\ UNCHANGED <<presplit, fs, task, models, outer_cv, id_to_report, smreports, sdreports, ret>>

(* if outer_cv is not None: self._emitters = datahandler.kfold_emitters(...) *)
KfoldEmitters ==
    /\ pc = "kfold"
    /\ emitters' = outer_cv
    /\ calls' = Append(calls, Call("kfold_emitters", 0, outer_cv))
    /\ pc' = LoopAt(1)
    /\ UNCHANGED <<presplit, fs, task, models, outer_cv, i, emitter, id_to_model, id_to_report,
                   smreports, sdreports, ret>>

(* model.specify_data(dataemitter=self._emitter, dataemitters=self._emitters) *)
SpecifyData ==
    /\ pc = "specify"
    /\ calls' = Append(calls, Call("specify_data", i, emitters))
    /\ pc' = "fit"
    /\ UNCHANGED <<presplit, fs, task, models, outer_cv, i, emitter, emitters, id_to_model,
                   id_to_report, smreports, sdreports, ret>>

(* model.fit() returns: on to the next model *)
Fit ==
    /\ pc = "fit"
    /\ calls' = Append(calls, Call("fit", i, None))
    /\ i' = i + 1
    /\ pc' = LoopAt(i + 1)
    /\ UNCHANGED <<presplit, fs, task, models, outer_cv, emitter, emitters, id_to_model,
                   id_to_report, smreports, sdreports, ret>>

(* model.fit() raises: the exception leaves __init__, no report is built *)
FitRaises ==
    /\ pc = "fit"
    /\ calls' = Append(calls, Call("fit", i, None))
    /\ pc' = "failed"
    /\ UNCHANGED <<presplit, fs, task, models, outer_cv, i, emitter, emitters, id_to_model,
                   id_to_report, smreports, sdreports, ret>>

(* self._id_to_report = {...} *)
BuildReports ==
    /\ pc = "reports"
    /\ smreports' = NewSingleModelReports
    /\ id_to_report' = IdToReport
    /\ pc' = "done"
    /\ UNCHANGED <<presplit, fs, task, models, outer_cv, i, emitter, emitters, id_to_model,
                   sdreports, calls, ret>>

Construction == Begin \/ KfoldEmitters \/ SpecifyData \/ Fit \/ FitRaises \/ BuildReports

----------------------------------------------------------------------------
(* MLRegressionReport / MLClassificationReport: operations *)

(* d[key] of a dict keyed by model name *)
Lookup(d, key) ==
    IF key.kind = "str" /\ DictHas(d, key.s)
    THEN [out |-> "return", exc |-> "", val |-> Some(DictGet(d, key.s))]
    ELSE [out |-> "raise", exc |-> "KeyError", val |-> None]

(* indexing that also takes an integer position *)
MM_getitem_positional(model_id) ==
    IF model_id.kind = "int" /\ model_id.n + 1 \in DOMAIN smreports
    THEN [out |-> "return", exc |-> "", val |-> Some(model_id.n + 1)]
    ELSE Lookup(id_to_report, model_id)

MM_model_report(model_id) == Lookup(id_to_report, model_id)
MM_model(model_id) == Lookup(id_to_model, model_id)
MM_getitem(model_id) == Lookup(id_to_report, model_id)

(* [report.train_report().fit_statistics() for report in self._id_to_report.values()] *)
TrainFitStatistics ==
    LET reports == DictValues(id_to_report)
    IN [j \in 1..Len(reports) |->
           SD_fit_statistics(SM_train_report(smreports[reports[j]]).obj[1])]
TestFitStatistics ==
    LET reports == DictValues(id_to_report)
    IN [j \in 1..Len(reports) |->
           SD_fit_statistics(SM_test_report(smreports[reports[j]]).obj[1])]
(* the dataset validated as the dataset-scoped report validates it *)
MM_fit_statistics_validated(dataset) ==
    IF ~ValidDataset(dataset) THEN [out |-> "raise", exc |-> "ValueError", val |-> None]
    ELSE IF dataset = "train" THEN PdConcat(TrainFitStatistics)
    ELSE PdConcat(TestFitStatistics)
MM_fit_statistics(dataset) ==
    IF dataset = "train" THEN PdConcat(TrainFitStatistics) ELSE PdConcat(TestFitStatistics)

TrainCvFitStatistics(averaged_across_folds) ==
    LET reports == DictValues(id_to_report)
    IN [j \in 1..Len(reports) |->
           SD_cv_fit_statistics(SM_train_report(smreports[reports[j]]).obj[1],
                                averaged_across_folds)]
(* every model asked for its cross-validation flag, not the first alone *)
MM_cv_fit_statistics_all_checked(averaged_across_folds) ==
    IF N = 0 THEN [out |-> "raise", exc |-> "IndexError", val |-> None]
    ELSE IF \E j \in 1..N : ~IsCrossValidated(j)
         THEN [out |-> "return", exc |-> "", val |-> None]
    ELSE PdConcat(TrainCvFitStatistics(averaged_across_folds))

MM_cv_fit_statistics(averaged_across_folds) ==
    IF N = 0 THEN [out |-> "raise", exc |-> "IndexError", val |-> None]
    ELSE IF ~IsCrossValidated(1) THEN [out |-> "return", exc |-> "", val |-> None]
    ELSE PdConcat(TrainCvFitStatistics(averaged_across_folds))

Answer(r) == /\ ret' = r
             /\ UNCHANGED <<presplit, fs, task, models, outer_cv, pc, i, emitter, emitters, id_to_model,
                            id_to_report, smreports, sdreports, calls>>

ModelReport(model_id) ==
    pc = "done" /\ Answer(Outcome("model_report", 0, model_id, MM_model_report(model_id)))
Model(model_id) ==
    pc = "done" /\ Answer(Outcome("model", 0, model_id, MM_model(model_id)))
GetItem(model_id) ==
    pc = "done" /\ Answer(Outcome("__getitem__", 0, model_id, MM_getitem(model_id)))
FitStatistics(dataset) ==
    pc = "done" /\ Answer(Outcome("fit_statistics", 0, dataset, MM_fit_statistics(dataset)))
CvFitStatistics(averaged_across_folds) ==
    pc = "done" /\ Answer(Outcome("cv_fit_statistics", 0, averaged_across_folds,
                                  MM_cv_fit_statistics(averaged_across_folds)))

MultiModelOps ==
    \/ \E model_id \in Keys : ModelReport(model_id)
    \/ \E model_id \in Keys : Model(model_id)
    \/ \E model_id \in Keys : GetItem(model_id)
    \/ \E dataset \in Datasets : FitStatistics(dataset)
    \/ \E averaged_across_folds \in BOOLEAN : CvFitStatistics(averaged_across_folds)

----------------------------------------------------------------------------
(* Specification of the Multi-Model Report *)

FoldCounts == {None} \cup {Some(n) : n \in 2..MaxFolds}
ModelLists(lo, hi, names) ==
    UNION {[1..n -> [name : names, cv : BOOLEAN]] : n \in lo..hi}

NoSelector == [kind |-> "none"]

NoPreSplit ==
    /\ regreports = <<>>
    /\ report_dict_indexable_by_int = <<>>
    /\ report_dict_indexable_by_str = <<>>
    /\ fit_statistics = None

Unbuilt ==
    /\ fs = NoSelector
    /\ NoPreSplit
    /\ pc = "start"
    /\ i = 0
    /\ emitter = None
    /\ emitters = None
    /\ id_to_model = <<>>
    /\ id_to_report = <<>>
    /\ smreports = <<>>
    /\ sdreports = <<>>
    /\ calls = <<>>
    /\ ret = NoCall

Init ==
    /\ task \in Tasks
    /\ models \in ModelLists(0, MaxModels, Names)
    /\ outer_cv \in FoldCounts
    /\ Unbuilt

Next == Construction \/ MultiModelOps

Spec == Init /\ [][Next]_vars

----------------------------------------------------------------------------
(* Operations on Single-Model and Single-Model/Single-Dataset Reports *)

(* A constructor call: the new object joins the heap and the caller gets a  *)
(* reference to it, or the exception leaves the caller without an object.   *)
(* the newest report object is taken again and bound anew *)
ConstructRebinding(op, self, arg, r) ==
    /\ pc = "done"
    /\ r.out = "return" => Len(sdreports) < MaxReports
    /\ sdreports' = IF r.out # "return" THEN sdreports
                    ELSE IF sdreports = <<>> THEN <<r.obj[1]>>
                    ELSE [sdreports EXCEPT ![Len(sdreports)] = r.obj[1]]
    /\ ret' = IF r.out = "return"
              THEN Return(op, self, arg, Some(Len(sdreports')))
              ELSE Raise(op, self, arg, r.exc)
    /\ UNCHANGED <<presplit, fs, task, models, outer_cv, pc, i, emitter, emitters,
                   id_to_model, id_to_report, smreports, calls>>

Construct(op, self, arg, r) ==
    /\ pc = "done"
    /\ r.out = "return" => Len(sdreports) < MaxReports
    /\ sdreports' = IF r.out = "return" THEN Append(sdreports, r.obj[1]) ELSE sdreports
    /\ ret' = IF r.out = "return"
              THEN Return(op, self, arg, Some(Len(sdreports) + 1))
              ELSE Raise(op, self, arg, r.exc)
    /\ UNCHANGED <<presplit, fs, task, models, outer_cv, pc, i, emitter, emitters, id_to_model,
                   id_to_report, smreports, calls>>

(* SingleModelSingleDatasetMLRegReport(model, dataset) *)
NewSingleDatasetReport(m, dataset) ==
    Construct("SingleDatasetReport", m, dataset, SingleDatasetInit(m, dataset))

TrainReport(sm) == Construct("train_report", sm, None, SM_train_report(smreports[sm]))
TestReport(sm) == Construct("test_report", sm, None, SM_test_report(smreports[sm]))

SDFitStatistics(r) ==
    pc = "done" /\ Answer(Return("SD.fit_statistics", r, None,
                                 SD_fit_statistics(sdreports[r])))
SDFitStatisticsByClass(r) ==
    /\ pc = "done"
    /\ task # "regression"
    /\ Answer(Return("SD.fit_statistics_by_class", r, None,
                     SD_fit_statistics_by_class(sdreports[r])))
SDCvFitStatistics(r, averaged_across_folds) ==
    pc = "done" /\ Answer(Return("SD.cv_fit_statistics", r, averaged_across_folds,
                                 SD_cv_fit_statistics(sdreports[r], averaged_across_folds)))
SDCvFitStatisticsByClass(r, averaged_across_folds) ==
    /\ pc = "done"
    /\ task # "regression"
    /\ Answer(Return("SD.cv_fit_statistics_by_class", r, averaged_across_folds,
                     SD_cv_fit_statistics_by_class(sdreports[r], averaged_across_folds)))

SingleModelOps ==
    \/ \E m \in 1..N, dataset \in Datasets : NewSingleDatasetReport(m, dataset)
    \/ \E sm \in DOMAIN smreports : TrainReport(sm)
    \/ \E sm \in DOMAIN smreports : TestReport(sm)
    \/ \E r \in DOMAIN sdreports : SDFitStatistics(r)
    \/ \E r \in DOMAIN sdreports : SDFitStatisticsByClass(r)
    \/ \E r \in DOMAIN sdreports, a \in BOOLEAN : SDCvFitStatistics(r, a)
    \/ \E r \in DOMAIN sdreports, a \in BOOLEAN : SDCvFitStatisticsByClass(r, a)

(* Models whose names differ, as a report that is to be looked into holds *)
NamedModelLists(lo, hi) ==
    UNION {{[j \in 1..n |-> [name |-> DistinctNames[j], cv |-> c[j]]] :
              c \in [1..n -> BOOLEAN]} : n \in lo..hi}

InitSingle ==
    /\ task \in Tasks
    /\ models \in NamedModelLists(1, MaxSingleModels)
    /\ outer_cv \in FoldCounts
    /\ Unbuilt

NextSingle == Construction \/ SingleModelOps

SpecSingle == InitSingle /\ [][NextSingle]_vars

----------------------------------------------------------------------------
(* Properties of the Single-Model/Single-Dataset Report (under SpecSingle) *)

(* C1: constructing a Single-Model/Single-Dataset report with a selector    *)
(* other than "train" or "test" raises ValueError and gives the caller no   *)
(* report; with "train" or "test" it returns a report bound to that model   *)
(* and selector; every report on the heap has its dataset in               *)
(* {"train", "test"}.                                                       *)
C1_DatasetValidated ==
    /\ \A r \in DOMAIN sdreports : sdreports[r].dataset \in {"train", "test"}
    /\ ret.op = "SingleDatasetReport" =>
          IF ret.arg \in {"train", "test"}
          THEN /\ ret.out = "return"
               /\ ret.val # None
               /\ ret.val[1] \in DOMAIN sdreports
               /\ sdreports[ret.val[1]].dataset = ret.arg
               /\ sdreports[ret.val[1]].model = ret.self
          ELSE /\ ret.out = "raise"
               /\ ret.exc = "ValueError"
               /\ ret.val = None

C1_Witness ==
    /\ ret.op = "SingleDatasetReport"
    /\ ret.arg = "validation"
    /\ ret.out = "raise"
    /\ Len(sdreports) = 1

(* C2: cv_fit_statistics of a single-dataset report never raises; it is     *)
(* None when the model is not cross-validated (whatever the selector) and   *)
(* when the selector is 'test'; for a cross-validated model and 'train' it  *)
(* is the cv scorer's averaged table (stats_df) when averaged_across_folds, *)
(* the per-fold table (cv_stats_df) otherwise.                              *)
C2_CvFitStatistics ==
    ret.op = "SD.cv_fit_statistics" =>
        LET self == sdreports[ret.self]
        IN /\ ret.out = "return"
           /\ ~models[self.model].cv => ret.val = None
           /\ self.dataset = "test" => ret.val = None
           /\ models[self.model].cv /\ self.dataset = "train" =>
                 ret.val = Some(<<[model |-> self.model, scorer |-> "cv_scorer",
                                   df |-> IF ret.arg THEN "stats_df" ELSE "cv_stats_df"]>>)

C2_Witness ==
    /\ ret.op = "SD.cv_fit_statistics"
    /\ ~models[sdreports[ret.self].model].cv
    /\ sdreports[ret.self].dataset = "train"
    /\ ret.val = None

(* C3: fit_statistics_by_class never raises; on a binary task it is None    *)
(* for both selectors; on a non-binary task it is the per-class table of    *)
(* the train scorer for 'train' and of the test scorer for 'test'.          *)
C3_FitStatisticsByClass ==
    ret.op = "SD.fit_statistics_by_class" =>
        LET self == sdreports[ret.self]
        IN /\ ret.out = "return"
           /\ task = "binary" => ret.val = None
           /\ task # "binary" =>
                 ret.val = Some(<<[model |-> self.model,
                                   scorer |-> IF self.dataset = "train"
                                              THEN "train_scorer" ELSE "test_scorer",
                                   df |-> "stats_by_class_df"]>>)

C3_Witness ==
    /\ ret.op = "SD.fit_statistics_by_class"
    /\ task = "binary"
    /\ sdreports[ret.self].dataset = "test"
    /\ ret.val = None

(* C4: cv_fit_statistics_by_class never raises; it is None whenever the     *)
(* model is not cross-validated, or the task is binary, or the selector is  *)
(* 'test'; otherwise it is the cv scorer's per-class table (averaged or     *)
(* per fold).                                                               *)
C4_CvFitStatisticsByClass ==
    ret.op = "SD.cv_fit_statistics_by_class" =>
        LET self == sdreports[ret.self]
            soft == \/ ~models[self.model].cv
                    \/ task = "binary"
                    \/ self.dataset = "test"
        IN /\ ret.out = "return"
           /\ soft => ret.val = None
           /\ ~soft =>
                 ret.val = Some(<<[model |-> self.model, scorer |-> "cv_scorer",
                                   df |-> IF ret.arg THEN "stats_by_class_df"
                                          ELSE "cv_stats_by_class_df"]>>)

C4_Witness ==
    /\ ret.op = "SD.cv_fit_statistics_by_class"
    /\ models[sdreports[ret.self].model].cv
    /\ task = "binary"
    /\ sdreports[ret.self].dataset = "train"
    /\ ret.val = None

----------------------------------------------------------------------------
(* Properties of the Multi-Model Report (under Spec) *)

NamesDistinct == \A j, k \in 1..N : models[j].name = models[k].name => j = k

RECURSIVE Ascending(_)
Ascending(S) ==
    IF S = {} THEN <<>>
    ELSE LET lo == CHOOSE x \in S : \A y \in S : x <= y
         IN <<lo>> \o Ascending(S \ {lo})

(* The models a name lookup can reach: for each name the last model         *)
(* supplied under it, the names taken in the order of their first           *)
(* occurrence.                                                              *)
LastNamed(j) == CHOOSE k \in 1..N :
                   /\ models[k].name = models[j].name
                   /\ \A l \in 1..N : models[l].name = models[j].name => l <= k
Registered ==
    LET first == Ascending({j \in 1..N : \A k \in 1..(j - 1) : models[k].name # models[j].name})
    IN [j \in 1..Len(first) |-> LastNamed(first[j])]

PartitionScorer(dataset) == IF dataset = "train" THEN "train_scorer" ELSE "test_scorer"
StatsOf(ms, scorer, df) ==
    [j \in 1..Len(ms) |-> [model |-> ms[j], scorer |-> scorer, df |-> df]]
RECURSIVE CrossValidatedOf(_)
CrossValidatedOf(ms) ==
    IF ms = <<>> THEN <<>>
    ELSE (IF models[Head(ms)].cv THEN <<Head(ms)>> ELSE <<>>) \o CrossValidatedOf(Tail(ms))

(* C5 as stated: fit_statistics(dataset) of a report built from N >= 1      *)
(* models returns the concatenation of exactly N per-model tables of the    *)
(* requested partition, in the order the models were supplied.             *)
C5_AsStated ==
    ret.op = "fit_statistics" /\ ret.arg \in {"train", "test"} /\ N >= 1 =>
        /\ ret.out = "return"
        /\ ret.val = Some(StatsOf([j \in 1..N |-> j], PartitionScorer(ret.arg), "stats_df"))

(* C5 amended: fit_statistics(dataset) returns one per-model table of the   *)
(* requested partition for each distinct model name, the names in the      *)
(* order of their first occurrence in the supplied list and the table      *)
(* that of the last model supplied under the name; these are exactly N     *)
(* tables in the supplied order when the N >= 1 names are pairwise         *)
(* distinct.  With no model at all it raises ValueError.                   *)
C5_FitStatisticsOrder ==
    ret.op = "fit_statistics" /\ ret.arg \in {"train", "test"} =>
        /\ N = 0 => ret.out = "raise" /\ ret.exc = "ValueError"
        /\ N >= 1 =>
              /\ ret.out = "return"
              /\ ret.val = Some(StatsOf(Registered, PartitionScorer(ret.arg), "stats_df"))
        /\ N >= 1 /\ NamesDistinct =>
              ret.val = Some(StatsOf([j \in 1..N |-> j], PartitionScorer(ret.arg), "stats_df"))

C5_Witness ==
    /\ ret.op = "fit_statistics"
    /\ ret.arg = "train"
    /\ N = 3
    /\ models[1].name = "A" /\ models[2].name = "B" /\ models[3].name = "A"
    /\ ret.out = "return"
    /\ Len(ret.val[1]) = 2

RECURSIVE FittingCalls(_)
FittingCalls(k) ==
    IF k > N THEN <<>>
    ELSE <<<<"specify_data", k>>, <<"fit", k>>>> \o FittingCalls(k + 1)
ExpectedCalls ==
    <<<<"train_test_emitter", 0>>>>
    \o (IF outer_cv # None THEN <<<<"kfold_emitters", 0>>>> ELSE <<>>)
    \o FittingCalls(1)
CallsMade == [j \in 1..Len(calls) |-> <<calls[j].fn, calls[j].model>>]

(* C7: the calls of a construction are a prefix of: train_test_emitter,     *)
(* kfold_emitters (only if outer_cv is given), then specify_data and fit    *)
(* of each model in the supplied order; no Single-Model Report exists       *)
(* before the fit of the last model has returned, and none after a fit     *)
(* that raised.                                                             *)
C7_ConstructionOrder ==
    /\ Len(CallsMade) <= Len(ExpectedCalls)
    /\ CallsMade = SubSeq(ExpectedCalls, 1, Len(CallsMade))
    /\ pc = "done" => CallsMade = ExpectedCalls
    /\ (smreports # <<>> \/ id_to_report # <<>>) => pc = "done"

C7_Witness ==
    /\ pc = "done"
    /\ N = 3
    /\ outer_cv # None
    /\ Len(smreports) = 3

(* C8: model_report(id) and report[id] give the same Single-Model Report,   *)
(* whose model bears the name id, and model(id) gives a model of that name, *)
(* when id is the name of a supplied model; for any other id, an integer   *)
(* position included, all three raise KeyError; the mappings stay as       *)
(* construction left them.                                                  *)
C8_LookupByName ==
    /\ pc = "done" => id_to_model = IdToModel /\ id_to_report = IdToReport
    /\ ret.op \in {"model_report", "__getitem__", "model"} =>
          LET id == ret.arg
              registered == id.kind = "str" /\ \E j \in 1..N : models[j].name = id.s
          IN IF registered
             THEN /\ ret.out = "return"
                  /\ ret.op = "model" => models[ret.val[1]].name = id.s
                  /\ ret.op # "model" =>
                        /\ ret.val = MM_model_report(id).val
                        /\ models[smreports[ret.val[1]].model].name = id.s
             ELSE ret.out = "raise" /\ ret.exc = "KeyError" /\ ret.val = None

C8_Witness ==
    /\ ret.op = "__getitem__"
    /\ ret.arg = IntKey(0)
    /\ N >= 1
    /\ ret.out = "raise"
    /\ ret.exc = "KeyError"


(* C9: every train_report() call returns a report object that did not       *)
(* exist before the call, bound to the model of the Single-Model Report     *)
(* and to 'train' (test_report(): to 'test'), leaving the earlier objects   *)
(* as they were; its fit_statistics and cv_fit_statistics equal those of    *)
(* every earlier report of the same model and partition.                    *)
C9_RoutingFresh ==
    [][ret'.op \in {"train_report", "test_report"} =>
          LET k == ret'.val[1]
              new == sdreports'[k]
          IN /\ ret'.out = "return"
             /\ k \notin DOMAIN sdreports
             /\ k \in DOMAIN sdreports'
             /\ \A j \in DOMAIN sdreports : sdreports'[j] = sdreports[j]
             /\ new.model = smreports[ret'.self].model
             /\ new.dataset = IF ret'.op = "train_report" THEN "train" ELSE "test"
             /\ \A j \in DOMAIN sdreports :
                   sdreports[j].model = new.model /\ sdreports[j].dataset = new.dataset =>
                       /\ SD_fit_statistics(sdreports[j]) = SD_fit_statistics(new)
                       /\ \A a \in BOOLEAN :
                             SD_cv_fit_statistics(sdreports[j], a) = SD_cv_fit_statistics(new, a)
      ]_vars

C9_Witness ==
    /\ ret.op = "train_report"
    /\ ret.val = Some(2)
    /\ Len(sdreports) = 2
    /\ sdreports[1].dataset = "train"
    /\ sdreports[2].dataset = "train"
    /\ sdreports[1].model = sdreports[2].model

----------------------------------------------------------------------------
(* Feature selectors: KBestSelectorR, LassoSelectorR *)

(* The training split a data emitter gives: the columns of X_train and,     *)
(* per column, what the fitted scorer or model makes of it (the score of    *)
(* the scoring function; the magnitude of the Lasso coefficient, 0 for a    *)
(* coefficient under the selection threshold).                              *)
TrainSplits ==
    UNION {{[columns |-> SubSeq(FeatureNames, 1, n), scores |-> sc] :
              sc \in [1..n -> 0..MaxScore]} : n \in 1..MaxFeatures}

(* Positions of the columns before column j in a stable sort by score *)
BeforeAscending(scores, j) ==
    {l \in DOMAIN scores : scores[l] < scores[j] \/ (scores[l] = scores[j] /\ l < j)}
BeforeDescending(scores, j) ==
    {l \in DOMAIN scores : scores[l] > scores[j] \/ (scores[l] = scores[j] /\ l < j)}

(* the k lowest scores kept *)
KBestSupportLowest(scores, k) ==
    [j \in DOMAIN scores |-> Cardinality(BeforeAscending(scores, j)) < k]

(* SelectKBest.get_support(): the last k of a stable ascending argsort *)
KBestSupport(scores, k) ==
    [j \in DOMAIN scores |-> Cardinality(BeforeAscending(scores, j)) >= Len(scores) - k]

(* the cap on the number of features left out *)
FromModelSupportUncapped(scores, max_features) ==
    [j \in DOMAIN scores |-> scores[j] > 0]

(* SelectFromModel.get_support(): the first max_features of a stable        *)
(* descending argsort, less the features under the threshold                *)
FromModelSupport(scores, max_features) ==
    [j \in DOMAIN scores |->
        /\ Cardinality(BeforeDescending(scores, j)) < max_features
        /\ scores[j] > 0]

(* the selector fitted on an array: no column names recorded *)
FittedNamesLost(columns) == None

(* selector.fit(X=X_train, ...) on a DataFrame records its column names *)
FittedNames(columns) == Some(columns)

(* selector.get_feature_names_out(): the recorded names under the mask, or  *)
(* generated ones when the selector was fitted on an array                  *)
RECURSIVE Masked(_, _)
Masked(names, mask) ==
    IF mask = <<>> THEN <<>>
    ELSE (IF Head(mask) THEN <<Head(names)>> ELSE <<>>) \o Masked(Tail(names), Tail(mask))
GetFeatureNamesOut(feature_names_in, mask) ==
    IF feature_names_in # None
    THEN Masked(feature_names_in[1], mask)
    ELSE Masked(SubSeq(GeneratedNames, 1, Len(mask)), mask)

(* KBestSelectorR.__init__ / LassoSelectorR.__init__.  all_feature_scores   *)
(* is selector.scores_ for K-Best and the coefficient magnitudes of the     *)
(* fitted self._model for Lasso.                                            *)
KBestSelectorR(k) ==
    [kind |-> "kbest", k |-> k, out |-> "", exc |-> "",
     all_features |-> None, selected_features |-> None, support |-> None,
     all_feature_scores |-> None, selected_feature_scores |-> None]
LassoSelectorR(max_n_features) ==
    [kind |-> "lasso", k |-> max_n_features, out |-> "", exc |-> "",
     all_features |-> None, selected_features |-> None, support |-> None,
     all_feature_scores |-> None, selected_feature_scores |-> None]

(* KBestSelectorR.select.  With k above the number of columns the fit of    *)
(* SelectKBest either raises ValueError or, warning, keeps every column,    *)
(* as the installed library has it (lenient).                               *)
KBestSelect(data, lenient) ==
    /\ fs.kind = "kbest"
    /\ LET n == Len(data.columns)
           support == KBestSupport(data.scores, fs.k)
       IN fs' = IF fs.k > n /\ ~lenient
                THEN [fs EXCEPT !.out = "raise", !.exc = "ValueError",
                                !.all_features = Some(data.columns)]
                ELSE [fs EXCEPT !.out = "return", !.exc = "",
                                !.all_features = Some(data.columns),
                                !.selected_features =
                                    Some(GetFeatureNamesOut(FittedNames(data.columns), support)),
                                !.all_feature_scores = Some(data.scores),
                                !.support = Some(support),
                                !.selected_feature_scores =
                                    Some(Masked(data.scores, support))]
    /\ UNCHANGED <<presplit, task, models, outer_cv, pc, i, emitter, emitters, id_to_model,
                   id_to_report, smreports, sdreports, calls, ret>>

(* LassoSelectorR.select.  SelectFromModel.fit raises ValueError when       *)
(* max_features is above the number of columns.                             *)
LassoSelect(data) ==
    /\ fs.kind = "lasso"
    /\ LET n == Len(data.columns)
           support == FromModelSupport(data.scores, fs.k)
       IN fs' = IF fs.k > n
                THEN [fs EXCEPT !.out = "raise", !.exc = "ValueError",
                                !.all_features = Some(data.columns),
                                !.all_feature_scores = Some(data.scores)]
                ELSE [fs EXCEPT !.out = "return", !.exc = "",
                                !.all_features = Some(data.columns),
                                !.all_feature_scores = Some(data.scores),
                                !.selected_features =
                                    Some(GetFeatureNamesOut(FittedNames(data.columns), support)),
                                !.support = Some(support)]
    /\ UNCHANGED <<presplit, task, models, outer_cv, pc, i, emitter, emitters, id_to_model,
                   id_to_report, smreports, sdreports, calls, ret>>

InitFS ==
    /\ fs \in {KBestSelectorR(k) : k \in 0..(MaxFeatures + 1)}
              \cup {LassoSelectorR(k) : k \in 0..(MaxFeatures + 1)}
    /\ NoPreSplit
    /\ task = "regression"
    /\ models = <<>>
    /\ outer_cv = None
    /\ pc = "start"
    /\ i = 0
    /\ emitter = None
    /\ emitters = None
    /\ id_to_model = <<>>
    /\ id_to_report = <<>>
    /\ smreports = <<>>
    /\ sdreports = <<>>
    /\ calls = <<>>
    /\ ret = NoCall

NextFS ==
    \/ \E data \in TrainSplits :
          \E lenient \in (IF fs.k > Len(data.columns) THEN BOOLEAN ELSE {TRUE}) :
              KBestSelect(data, lenient)
    \/ \E data \in TrainSplits : LassoSelect(data)

SpecFS == InitFS /\ [][NextFS]_vars

(* C10: the triple a selector returns has a support mask as long as the     *)
(* list of all features, and its selected features are, in order, the       *)
(* entries of all_features at the positions where the mask is true.         *)
C10_SupportMaskAligned ==
    fs.kind # "none" /\ fs.out = "return" =>
        LET all == fs.all_features[1]
            sel == fs.selected_features[1]
            mask == fs.support[1]
            at == Ascending({j \in DOMAIN mask : mask[j]})
        IN /\ Len(mask) = Len(all)
           /\ sel = [j \in 1..Len(at) |-> all[at[j]]]

C10_Witness ==
    /\ fs.kind = "lasso"
    /\ fs.out = "return"
    /\ fs.all_features = Some(<<"f1", "f2", "f3">>)
    /\ fs.support = Some(<<FALSE, TRUE, TRUE>>)
    /\ fs.selected_features = Some(<<"f2", "f3">>)


Selected(mask) == {j \in DOMAIN mask : mask[j]}

LassoAtMost ==
    LET mask == fs.support[1]
        coef == fs.all_feature_scores[1]
        nonzero == {j \in DOMAIN coef : coef[j] > 0}
    IN /\ Cardinality(Selected(mask)) <= fs.k
       /\ Len(fs.selected_features[1]) = Cardinality(Selected(mask))
       /\ Selected(mask) \subseteq nonzero
       /\ Cardinality(nonzero) < fs.k => Selected(mask) = nonzero
       /\ fs.k = 0 => fs.selected_features[1] = <<>>

(* C11 as stated: for every max_n_features >= 0 and every training split    *)
(* the Lasso selector returns a selection of at most max_n_features         *)
(* features, all with a nonzero coefficient, and exactly the nonzero ones   *)
(* when there are fewer than max_n_features of them.                        *)
C11_AsStated ==
    fs.kind = "lasso" /\ fs.out # "" => fs.out = "return" /\ LassoAtMost

(* C11 amended: for every max_n_features from 0 to the number of predictors *)
(* select returns at most max_n_features features, each with a coefficient  *)
(* at or above the selection threshold (so nonzero), exactly the nonzero    *)
(* ones when there are fewer than max_n_features of them, and none when     *)
(* max_n_features = 0.  With max_n_features above the number of predictors  *)
(* select returns nothing: the ValueError of SelectFromModel.fit comes out  *)
(* of it, after the Lasso model has been fitted.                            *)
C11_LassoAtMost ==
    fs.kind = "lasso" /\ fs.out # "" =>
        LET n == Len(fs.all_features[1])
        IN /\ fs.k <= n => fs.out = "return" /\ LassoAtMost
           /\ fs.k > n =>
                 /\ fs.out = "raise" /\ fs.exc = "ValueError"
                 /\ Len(fs.all_feature_scores[1]) = n

C11_Witness ==
    /\ fs.kind = "lasso"
    /\ fs.k = 2
    /\ fs.out = "return"
    /\ fs.all_feature_scores = Some(<<0, 2, 0>>)
    /\ fs.selected_features = Some(<<"f2">>)

(* C12 as stated: the K-Best selector returns exactly k features, none      *)
(* scoring lower than an unselected one, whenever k does not exceed the     *)
(* number of predictors, and select fails whenever k exceeds it.            *)
C12_AsStated ==
    fs.kind = "kbest" /\ fs.out # "" =>
        LET n == Len(fs.all_features[1])
        IN /\ fs.k <= n =>
                 /\ fs.out = "return"
                 /\ Cardinality(Selected(fs.support[1])) = fs.k
                 /\ \A j \in Selected(fs.support[1]), l \in 1..n :
                       ~fs.support[1][l] =>
                           fs.all_feature_scores[1][j] >= fs.all_feature_scores[1][l]
           /\ fs.k > n => fs.out = "raise"

(* C12 amended: for k not above the number of predictors select returns     *)
(* exactly k selected features, none scoring lower than an unselected one   *)
(* (every feature when k equals the number of predictors).  select does not *)
(* check k itself: for k above the number of predictors it either lets the  *)
(* ValueError of SelectKBest.fit through or, where the library only warns,  *)
(* returns every feature selected.                                          *)
C12_KBestTopK ==
    fs.kind = "kbest" /\ fs.out # "" =>
        LET n == Len(fs.all_features[1])
        IN /\ fs.k <= n =>
                 /\ fs.out = "return"
                 /\ Cardinality(Selected(fs.support[1])) = fs.k
                 /\ Len(fs.selected_features[1]) = fs.k
                 /\ \A j \in Selected(fs.support[1]), l \in 1..n :
                       ~fs.support[1][l] =>
                           fs.all_feature_scores[1][j] >= fs.all_feature_scores[1][l]
           /\ fs.k = n => fs.selected_features = fs.all_features
           /\ fs.k > n =>
                 \/ fs.out = "raise" /\ fs.exc = "ValueError"
                 \/ fs.out = "return" /\ fs.selected_features = fs.all_features

C12_Witness ==
    /\ fs.kind = "kbest"
    /\ fs.k = 2
    /\ fs.out = "return"
    /\ fs.all_feature_scores = Some(<<2, 0, 1>>)
    /\ fs.support = Some(<<TRUE, FALSE, TRUE>>)
    /\ fs.selected_features = Some(<<"f1", "f3">>)

CallsOf(fn, j) == {c \in DOMAIN calls : calls[c].fn = fn /\ calls[c].model = j}

(* C15: models sharing a name do not make construction fail (only a fit     *)
(* that raises does); once construction is done every supplied model has    *)
(* had exactly one specify_data and one fit; the two mappings have the      *)
(* same keys, the supplied names; a supplied name resolves to the last      *)
(* model supplied under it in model(name), and model_report(name) wraps     *)
(* that same model; no lookup reaches an earlier model of a shared name.    *)
C15_DuplicateNames ==
    /\ pc = "failed" => calls[Len(calls)] = Call("fit", i, None)
    /\ pc = "done" =>
          /\ \A j \in 1..N :
                /\ Cardinality(CallsOf("specify_data", j)) = 1
                /\ Cardinality(CallsOf("fit", j)) = 1
          /\ DictKeys(id_to_model) = {models[j].name : j \in 1..N}
          /\ DictKeys(id_to_report) = DictKeys(id_to_model)
          /\ \A j \in 1..N :
                LET name == StrKey(models[j].name)
                IN /\ MM_model(name) = [out |-> "return", exc |-> "", val |-> Some(LastNamed(j))]
                   /\ MM_model_report(name).out = "return"
                   /\ smreports[MM_model_report(name).val[1]].model = LastNamed(j)
          /\ \A key \in Keys :
                MM_model(key).out = "return" =>
                    /\ MM_model_report(key).out = "return"
                    /\ smreports[MM_model_report(key).val[1]].model = MM_model(key).val[1]
                    /\ LastNamed(MM_model(key).val[1]) = MM_model(key).val[1]
    /\ ret.op = "model" /\ ret.out = "return" =>
          /\ models[ret.val[1]].name = ret.arg.s
          /\ \A l \in 1..N : models[l].name = ret.arg.s => l <= ret.val[1]

C15_Witness ==
    /\ pc = "done"
    /\ N = 3
    /\ models[1].name = "A" /\ models[2].name = "B" /\ models[3].name = "A"
    /\ ret.op = "model"
    /\ ret.arg = StrKey("A")
    /\ ret.val = Some(3)
    /\ smreports[DictGet(id_to_report, "A")].model = 3

(* C17: Multi-Model fit_statistics(dataset) with any dataset other than     *)
(* 'train', 'validation' included, answers as it does for 'test': the       *)
(* concatenated test-partition tables of the registered models, and no      *)
(* error that depends on the dataset value (with no model at all, the       *)
(* ValueError of the empty concatenation, as for 'test'); the               *)
(* dataset-scoped report constructor rejects such a value.                  *)
C17_DatasetUnvalidated ==
    ret.op = "fit_statistics" /\ ret.arg # "train" =>
        /\ N >= 1 =>
              /\ ret.out = "return"
              /\ ret.val = Some(StatsOf(Registered, "test_scorer", "stats_df"))
        /\ N = 0 => ret.out = "raise" /\ ret.exc = "ValueError"
        /\ [out |-> ret.out, exc |-> ret.exc, val |-> ret.val] = MM_fit_statistics("test")
        /\ ret.arg # "test" =>
              \A m \in 1..N : SingleDatasetInit(m, ret.arg).out = "raise"

C17_Witness ==
    /\ ret.op = "fit_statistics"
    /\ ret.arg = "validation"
    /\ N = 2
    /\ ret.out = "return"
    /\ ret.val = Some(StatsOf(<<1, 2>>, "test_scorer", "stats_df"))

----------------------------------------------------------------------------
(* SingleModelSingleDatasetMLClassReport.plot_roc_curve *)

(* model.train_overall_scorer: the scorer over all outer folds, or None *)
TrainOverallScorer(m) ==
    IF models[m].overall THEN Some("train_overall_scorer") ELSE None

(* visualization.plot_roc_curve(y_score, y_true, figsize, ax): the figure *)
Figure(y_score, y_true) == [figure |-> "roc_curve", y_score |-> y_score, y_true |-> y_true]

(* the overall scorer never looked at *)
SD_plot_roc_curve_plain(self) ==
    IF ~self.is_binary THEN [val |-> None, plotted |-> None]
    ELSE LET scorer == IF self.dataset = "train" THEN "train_scorer" ELSE "test_scorer"
             y_score == Group(self.model, scorer, "_y_pred_score")
             y_true == Group(self.model, scorer, "_y_true")
         IN [val |-> Some(Figure(y_score, y_true)), plotted |-> Some(<<y_score, y_true>>)]

(* plot_roc_curve: the value returned, and what the plotting function was   *)
(* called with (None when it was not called)                                *)
SD_plot_roc_curve(self) ==
    IF ~self.is_binary THEN [val |-> None, plotted |-> None]
    ELSE LET scorer == IF self.dataset = "train"
                       THEN (IF TrainOverallScorer(self.model) # None
                             THEN TrainOverallScorer(self.model)[1]
                             ELSE "train_scorer")
                       ELSE "test_scorer"
             y_score == Group(self.model, scorer, "_y_pred_score")
             y_true == Group(self.model, scorer, "_y_true")
         IN [val |-> Some(Figure(y_score, y_true)), plotted |-> Some(<<y_score, y_true>>)]

PlotCalls == {c \in DOMAIN calls : calls[c].fn = "plot_roc_curve"}

PlotRocCurve(r) ==
    /\ pc = "done"
    /\ LET res == SD_plot_roc_curve(sdreports[r])
       IN /\ res.plotted # None => Cardinality(PlotCalls) < MaxPlots
          /\ calls' = IF res.plotted # None
                      THEN Append(calls, Call("plot_roc_curve", sdreports[r].model, res.plotted))
                      ELSE calls
          /\ ret' = Return("SD.plot_roc_curve", r, None, res.val)
    /\ UNCHANGED <<presplit, fs, task, models, outer_cv, pc, i, emitter, emitters, id_to_model,
                   id_to_report, smreports, sdreports>>

(* One classification model, with or without an overall scorer *)
ClassModelLists ==
    {<<[name |-> DistinctNames[1], cv |-> c, overall |-> o]>> : c \in BOOLEAN, o \in BOOLEAN}

InitPlot ==
    /\ task \in {"binary", "multiclass"}
    /\ models \in ClassModelLists
    /\ outer_cv \in FoldCounts
    /\ Unbuilt

NextPlot ==
    \/ Construction
    \/ \E m \in 1..N, dataset \in Datasets : NewSingleDatasetReport(m, dataset)
    \/ \E sm \in DOMAIN smreports : TrainReport(sm)
    \/ \E sm \in DOMAIN smreports : TestReport(sm)
    \/ \E r \in DOMAIN sdreports : PlotRocCurve(r)

SpecPlot == InitPlot /\ [][NextPlot]_vars

(* C13: every plot_roc_curve call returns; on a task that is not binary it  *)
(* returns None and the plotting function is not called; on a binary task   *)
(* the plotting function is called once, with the scores and true labels    *)
(* of the test scorer for a 'test' report, of the overall scorer for a      *)
(* 'train' report whose model has one, of the plain train scorer for a      *)
(* 'train' report whose model has none, and its figure is returned; the     *)
(* report stays as it was.                                                  *)
C13_RocCurve ==
    [][ret'.op = "SD.plot_roc_curve" =>
          LET self == sdreports[ret'.self]
              m == self.model
              scorer == IF self.dataset = "test" THEN "test_scorer"
                        ELSE IF models[m].overall THEN "train_overall_scorer"
                        ELSE "train_scorer"
              passed == <<Group(m, scorer, "_y_pred_score"), Group(m, scorer, "_y_true")>>
          IN /\ ret'.out = "return"
             /\ sdreports' = sdreports
             /\ task # "binary" => ret'.val = None /\ calls' = calls
             /\ task = "binary" =>
                   /\ calls' = Append(calls, Call("plot_roc_curve", m, Some(passed)))
                   /\ ret'.val = Some(Figure(passed[1], passed[2]))
      ]_vars

C13_Witness ==
    /\ ret.op = "SD.plot_roc_curve"
    /\ task = "binary"
    /\ sdreports[ret.self].dataset = "train"
    /\ models[1].overall
    /\ calls[Len(calls)].fn = "plot_roc_curve"
    /\ calls[Len(calls)].arg[1][1].scorer = "train_overall_scorer"
    /\ ret.val # None

----------------------------------------------------------------------------
(* interactive/regression.py: RegressionReport and the Multi-Model Report   *)
(* built from models already trained and a test set already split off.      *)
(* Here models[j].str is str(model) of the j-th model.                      *)

BoolKey(b) == [kind |-> "bool", s |-> "", n |-> IF b THEN 1 ELSE 0]
FloatKey == [kind |-> "float", s |-> "", n |-> 0]
Indices ==
    {IntKey(n) : n \in (0 - 1)..MaxModels} \cup {StrKey(s) : s \in Names \cup {"Z"}}
    \cup {BoolKey(b) : b \in BOOLEAN} \cup {FloatKey}

(* RegressionReport(model, X_test, y_test, y_scaler) *)
RegressionReport(m, y_scaler) == [model |-> m, scaled |-> y_scaler]

(* report.scorer.to_df() *)
ScorerToDf(report) ==
    Some(<<Group(report.model,
                 IF report.scaled THEN "scorer(inverse_transform)" ELSE "scorer",
                 "to_df")>>)

(* positions counted from one *)
ReportDictOneBased ==
    DictOf([j \in 1..N |-> [key |-> j, val |-> j]])

(* {i: RegressionReport(model, ...) for i, model in enumerate(self.models)}, *)
(* the j-th object created being the report of the j-th model               *)
ReportDictIndexableByInt ==
    DictOf([j \in 1..N |-> [key |-> j - 1, val |-> j]])

(* {str(report.model): report for report in by_int.values()} *)
ReportDictIndexableByStr(by_int, reports) ==
    LET values == DictValues(by_int)
    IN DictOf([j \in 1..Len(values) |->
                  [key |-> models[reports[values[j]].model].str, val |-> values[j]]])

(* MLRegressionReport.__init__ *)
PreSplitInit(y_scaler) ==
    /\ pc = "start"
    /\ LET reports == [j \in 1..N |-> RegressionReport(j, y_scaler)]
           by_int == ReportDictIndexableByInt
           values == DictValues(by_int)
           concat == PdConcat([j \in 1..Len(values) |-> ScorerToDf(reports[values[j]])])
       IN /\ regreports' = reports
          /\ report_dict_indexable_by_int' = by_int
          /\ report_dict_indexable_by_str' = ReportDictIndexableByStr(by_int, reports)
          /\ fit_statistics' = concat.val
          /\ pc' = IF concat.out = "return" THEN "done" ELSE "failed"
          /\ ret' = IF concat.out = "return"
                    THEN Return("MLRegressionReport", 0, y_scaler, None)
                    ELSE Raise("MLRegressionReport", 0, y_scaler, concat.exc)
    /\ UNCHANGED <<fs, task, models, outer_cv, i, emitter, emitters, id_to_model,
                   id_to_report, smreports, sdreports, calls>>

(* d[key] of a dict *)
Subscript(d, key) ==
    IF DictHas(d, key)
    THEN [out |-> "return", exc |-> "", val |-> Some(DictGet(d, key))]
    ELSE [out |-> "raise", exc |-> "KeyError", val |-> None]

(* MLRegressionReport.__getitem__; a bool is an int to isinstance *)
PreSplit_getitem(index) ==
    IF index.kind \in {"int", "bool"} THEN Subscript(report_dict_indexable_by_int, index.n)
    ELSE IF index.kind = "str" THEN Subscript(report_dict_indexable_by_str, index.s)
    ELSE [out |-> "raise", exc |-> "ValueError", val |-> None]

PreSplitGetItem(index) ==
    pc = "done" /\ Answer(Outcome("report[index]", 0, index, PreSplit_getitem(index)))

StrLists == UNION {[1..n -> [str : Names]] : n \in 0..MaxModels}

InitPre ==
    /\ task = "regression"
    /\ models \in StrLists
    /\ outer_cv = None
    /\ Unbuilt

NextPre ==
    \/ \E y_scaler \in BOOLEAN : PreSplitInit(y_scaler)
    \/ \E index \in Indices : PreSplitGetItem(index)

SpecPre == InitPre /\ [][NextPre]_vars

StrsDistinct == \A j, k \in 1..N : models[j].str = models[k].str => j = k

(* C14: in the pre-split-array report, report[i] for an integer i in        *)
(* 0..N-1 is the report wrapping the i-th supplied model (counted from 0);  *)
(* report[s] for the string representation s of a supplied model is a       *)
(* report wrapping a model whose string representation is s, and is the     *)
(* object report[i] gives for that model when the string representations    *)
(* are pairwise distinct; an index that is neither an integer nor a string  *)
(* raises ValueError.                                                       *)
C14_Indexing ==
    /\ pc = "done" =>
          /\ \A j \in 1..N :
                /\ PreSplit_getitem(IntKey(j - 1)).out = "return"
                /\ regreports[PreSplit_getitem(IntKey(j - 1)).val[1]].model = j
                /\ PreSplit_getitem(StrKey(models[j].str)).out = "return"
          /\ PreSplit_getitem(FloatKey).exc = "ValueError"
    /\ ret.op = "report[index]" =>
          LET index == ret.arg
          IN /\ index.kind = "int" /\ index.n \in 0..(N - 1) =>
                   /\ ret.out = "return"
                   /\ regreports[ret.val[1]].model = index.n + 1
             /\ index.kind = "str" /\ (\E j \in 1..N : models[j].str = index.s) =>
                   /\ ret.out = "return"
                   /\ models[regreports[ret.val[1]].model].str = index.s
                   /\ StrsDistinct =>
                         \A j \in 1..N :
                             models[j].str = index.s =>
                                 ret.val = PreSplit_getitem(IntKey(j - 1)).val
             /\ index.kind \notin {"int", "bool", "str"} =>
                   ret.out = "raise" /\ ret.exc = "ValueError"

C14_Witness ==
    /\ pc = "done"
    /\ N = 3
    /\ models[1].str = "A" /\ models[2].str = "B" /\ models[3].str = "A"
    /\ ret.op = "report[index]"
    /\ ret.arg = StrKey("A")
    /\ ret.val = Some(3)
    /\ PreSplit_getitem(IntKey(0)).val = Some(1)

----------------------------------------------------------------------------
(* The data-handler-based reports with every operation on them *)

(* One model, or two that share a name or do not *)
FewModelLists ==
    {<<[name |-> "A", cv |-> c]>> : c \in BOOLEAN}
    \cup {<<[name |-> "A", cv |-> c], [name |-> n, cv |-> d]>> :
              c \in BOOLEAN, d \in BOOLEAN, n \in Names}

InitAll ==
    /\ task \in Tasks
    /\ models \in FewModelLists
    /\ outer_cv \in FoldCounts
    /\ Unbuilt

NextAll == Construction \/ MultiModelOps \/ SingleModelOps

SpecAll == InitAll /\ [][NextAll]_vars

(* C16: once construction is done, no operation on a report, one that       *)
(* soft-fails or raises included, changes the dataset selector or binary    *)
(* flag of an existing dataset-scoped report, the model list, either name   *)
(* mapping or the Single-Model Reports, or calls a collaborator again (no   *)
(* further specify_data or fit); the report stays constructed.              *)
C16_ReadOnly ==
    [][pc = "done" =>
          /\ pc' = "done"
          /\ task' = task
          /\ models' = models
          /\ id_to_model' = id_to_model
          /\ id_to_report' = id_to_report
          /\ smreports' = smreports
          /\ calls' = calls
          /\ <<emitter', emitters'>> = <<emitter, emitters>>
          /\ \A r \in DOMAIN sdreports :
                /\ r \in DOMAIN sdreports'
                /\ sdreports'[r].model = sdreports[r].model
                /\ sdreports'[r].dataset = sdreports[r].dataset
                /\ sdreports'[r].is_binary = sdreports[r].is_binary
      ]_vars

C16_Witness ==
    /\ pc = "done"
    /\ task = "binary"
    /\ Len(sdreports) = 2
    /\ sdreports[1].dataset = "train" /\ sdreports[2].dataset = "test"
    /\ ret.op = "SD.fit_statistics_by_class"
    /\ ret.val = None
    /\ N = 2 /\ models[1].name = models[2].name

====
